---- MODULE Spec2Model ----
(***************************************************************************)
(* Model of PriceRatioApp (src/main.py): the gold fallback chain           *)
(* cache -> NBP -> YFinance, the CoinGecko fetch, the single-slot file     *)
(* cache with its one hour freshness window, and refresh_data, which       *)
(* joins the two series into the ratio rows of current_data.               *)
(*                                                                         *)
(* Conventions.                                                            *)
(*  - A date is the index of an ISO date string ('%Y-%m-%d') in            *)
(*    lexicographic order, which for ISO dates is chronological order.     *)
(*  - A float is an integer; NBP quotes are in PLN/g, gold prices in units *)
(*    of 10^-7 USD so that the NBP conversion factor is an integer.        *)
(*  - Time is in seconds (datetime.now().timestamp()).                     *)
(*  - An Optional[...] is a record [some, val]; Python's None is None.     *)
(*  - A JSON value that the code stores without converting it is a record  *)
(*    [kind, val]: a number or a (non-empty, non-numeric) string.          *)
(*  - json.dump followed by json.load gives back a dict of string keys and *)
(*    float values unchanged, so a cache record holds the series as stored.*)
(*  - Tk runs one callback at a time: the user and the clock act between   *)
(*    two refreshes, and a refresh reads one clock value. The days entry   *)
(*    holds an integer.                                                    *)
(***************************************************************************)
EXTENDS Integers, Sequences, FiniteSets, TLC

\* ------------------------------------------------------------------ bounds
MaxDate == 1        \* dates are 1..MaxDate
MaxItems == 1       \* longest provider response (items, rows, samples)

\* ------------------------------------------------------- program constants
TTL == 3600               \* timedelta(hours=1), in seconds
NbpFactor == 77758692     \* 31.1034768 * 0.25, in units of 10^-7
GldFactor == 10           \* GLD close to gold price
DefaultDays == 7          \* tk.IntVar(value=7)
MsPerSecond == 1000       \* timestamp/1000
SecondsPerDay == 86400    \* strftime('%Y-%m-%d') of a timestamp in seconds

Dates == 1..MaxDate
\* what a provider quotes: nothing (zero) or something
Quotes == {0, 1}
Sources == {"NBP", "YFinance", "CoinGecko"}
Modes == {"btc_gold", "gold_btc"}

\* ---------------------------------------------------------------- values
None == [some |-> FALSE, val |-> << >>]
Some(v) == [some |-> TRUE, val |-> v]

Num(n) == [kind |-> "num", val |-> n]
Str == [kind |-> "str", val |-> 0]

EmptyDict == << >>

\* d[k] = v on a dict (later assignments to a key overwrite earlier ones)
DictSet(d, k, v) == [x \in (DOMAIN d) \cup {k} |-> IF x = k THEN v ELSE d[x]]

\* Python truthiness of an Optional[dict]: None and {} are both falsy
DictTruthy(o) == o.some /\ DOMAIN o.val # {}

\* Python truthiness of a float: 0.0 is falsy
FloatTruthy(x) == x # 0

\* Python truthiness of a stored JSON value: 0 is falsy, a non-empty string truthy
JsonTruthy(v) == IF v.kind = "num" THEN v.val # 0 ELSE TRUE

\* ------------------------------------------------------------ cache store
CacheMissing == [kind |-> "missing", timestamp |-> 0, prices |-> EmptyDict]
CacheMalformed == [kind |-> "malformed", timestamp |-> 0, prices |-> EmptyDict]
CacheRecord(t, p) == [kind |-> "record", timestamp |-> t, prices |-> p]

\* variant: whatever the file holds is taken for a record
load_cached_prices_Unchecked(c, t) ==
    IF t - c.timestamp < TTL THEN Some(c.prices) ELSE None

\* variant: the age test admits a record that is exactly one hour old
load_cached_prices_Inclusive(c, t) ==
    IF c.kind = "record" /\ t - c.timestamp <= TTL THEN Some(c.prices) ELSE None

\* load_cached_prices: the record's prices when the file parses and is younger
\* than one hour; None when it is older (implicit return) or on any exception
load_cached_prices(c, t) ==
    IF c.kind = "record" /\ t - c.timestamp < TTL THEN Some(c.prices) ELSE None

\* cache_prices: open(..., 'w') then json.dump. w is what the file system does:
\* "ok", "open_failed" (the file is left as it was) or "write_failed" (the file
\* was truncated by open and holds no complete record). Exceptions are swallowed.
cache_prices(c, prices, t, w) ==
    CASE w = "ok" -> CacheRecord(t, prices)
      [] w = "open_failed" -> c
      [] w = "write_failed" -> CacheMalformed

WriteOutcomes == {"ok", "open_failed", "write_failed"}

\* ---------------------------------------------------------------- adapters
RECURSIVE NbpPrices(_, _)
\* lines 171-177: prices[item['data']] = float(item['cena']) * 31.1034768 * 0.25
NbpPrices(items, acc) ==
    IF items = << >> THEN acc
    ELSE NbpPrices(Tail(items), DictSet(acc, Head(items).data, Head(items).cena * NbpFactor))

RECURSIVE GldPrices(_, _)
\* lines 202-206: prices[date.strftime(...)] = float(row['Close']) * 10
GldPrices(rows, acc) ==
    IF rows = << >> THEN acc
    ELSE GldPrices(Tail(rows), DictSet(acc, Head(rows).date, Head(rows).close * GldFactor))

\* datetime.fromtimestamp(timestamp/1000).strftime('%Y-%m-%d')
DateOfTimestamp(ms) == (ms \div MsPerSecond) \div SecondsPerDay

\* variant: every sample overwrites, the last of a day stays
BtcPrices_Last(pairs, acc) ==
    LET day(i) == DateOfTimestamp(pairs[i][1])
        days == {day(i) : i \in DOMAIN pairs}
        last(d) == CHOOSE i \in DOMAIN pairs :
                       day(i) = d /\ \A j \in DOMAIN pairs : day(j) = d => j <= i
    IN  [d \in (DOMAIN acc) \cup days |-> IF d \in days THEN pairs[last(d)][2] ELSE acc[d]]

RECURSIVE BtcPrices(_, _)
\* lines 232-236: if date not in prices: prices[date] = price
BtcPrices(pairs, acc) ==
    IF pairs = << >> THEN acc
    ELSE LET d == DateOfTimestamp(Head(pairs)[1])
         IN  BtcPrices(Tail(pairs),
                       IF d \in DOMAIN acc THEN acc ELSE DictSet(acc, d, Head(pairs)[2]))

\* ------------------------------------------------------ provider responses
SeqsUpTo(S, n) == UNION {[1..k -> S] : k \in 0..n}

NbpItems == [data : Dates, cena : Quotes]
GldRows == [date : Dates, close : Quotes]
\* two samples a day: midnight and noon of each date
HalfDayMs == (SecondsPerDay \div 2) * MsPerSecond
SampleTimes == {d * SecondsPerDay * MsPerSecond + h * HalfDayMs : d \in Dates, h \in {0, 1}}
JsonPrices == {Num(q) : q \in Quotes} \cup {Str}
BtcPairs == SampleTimes \X JsonPrices

\* what a provider call can come to: an HTTP status other than 200, an exception
\* raised by the transport, a 200 whose payload lacks an expected field (the
\* parsing raises), or a 200 with a payload the parsing accepts
Failures == {"http_status", "transport", "malformed"}
NbpResponses == [kind : Failures, body : {<< >>}] \cup [kind : {"ok"}, body : SeqsUpTo(NbpItems, MaxItems)]
GldResponses == [kind : {"transport"}, body : {<< >>}] \cup [kind : {"ok"}, body : SeqsUpTo(GldRows, MaxItems)]
BtcResponses == [kind : Failures, body : {<< >>}] \cup [kind : {"ok"}, body : SeqsUpTo(BtcPairs, MaxItems)]

\* ------------------------------------------------------------------ state
VARIABLES
    pc,              \* where the program is: idle in the Tk main loop, or a step of refresh_data
    startup,         \* TRUE while __init__ runs its initial refresh_data (line 49)
    now,             \* datetime.now().timestamp()
    cache,           \* the file gold_prices_cache.json
    days_to_show,    \* self.days_to_show
    ratio_mode,      \* self.ratio_mode
    current_data,    \* self.current_data
    api_status,      \* self.api_status
    gold_prices,     \* refresh_data's local gold_prices
    bitcoin_prices,  \* refresh_data's local bitcoin_prices
    cached_prices,   \* get_gold_prices_historical's local cached_prices (line 157)
    fetched,         \* the series the gold adapter called last in this refresh produced
    log,             \* what the running (or last) refresh_data call did, in order
    given            \* what the providers are set to answer, when a run fixes it in advance

vars == <<pc, startup, now, cache, days_to_show, ratio_mode, current_data,
          api_status, gold_prices, bitcoin_prices, cached_prices, fetched, log, given>>

Event(e, s, k) == [ev |-> e, src |-> s, ok |-> k]
Call(s) == Event("call", s, TRUE)
Status(s, k) == Event("status", s, k)
CacheLoad(hit) == Event("load", "cache", hit)
CacheStore(k) == Event("store", "cache", k)
ShowError(what) == Event("showerror", what, FALSE)
Raised == Event("raise", "refresh_data", FALSE)
Refreshed == Event("refreshed", "refresh_data", TRUE)
Returned(leg, present) == Event("return", leg, present)

\* update_api_status: self.api_status[api_name] = status
update_api_status(st, name, status) == DictSet(st, name, status)

\* nothing is fixed in advance: every call draws its answer when it is made
NothingGiven == [crypto |-> [kind |-> "transport", body |-> << >>], runs |-> 0, before |-> << >>]

\* the cache file as an earlier run of the program can have left it
InitCaches ==
    {CacheMissing, CacheMalformed,
     CacheRecord(-1, NbpPrices(<<[data |-> 1, cena |-> 1]>>, EmptyDict))}

Init ==
    /\ pc = "refresh"
    /\ startup = TRUE
    /\ now = 0
    /\ cache \in InitCaches
    /\ days_to_show = DefaultDays
    /\ ratio_mode = "btc_gold"
    /\ current_data = << >>
    /\ api_status = EmptyDict
    /\ gold_prices = None
    /\ bitcoin_prices = None
    /\ cached_prices = None
    /\ fetched = None
    /\ log = << >>
    /\ given = NothingGiven

\* ------------------------------------------------------------ the clock
\* time passes between two refreshes
\* the time between two refreshes that the model watches: around the TTL
Delays == {TTL - 1, TTL, TTL + 1}
Horizon == TTL + 1

Tick ==
    /\ pc = "idle"
    /\ \E d \in Delays : now + d <= Horizon /\ now' = now + d
    /\ UNCHANGED <<pc, startup, cache, days_to_show, ratio_mode, current_data,
                   api_status, gold_prices, bitcoin_prices, cached_prices, fetched, log, given>>

\* ------------------------------------------------------- the user, at idle
DayEntries == {-1, 0, 1, DefaultDays}

\* the user types a number into the days entry (no callback runs)
EditDays ==
    /\ pc = "idle"
    /\ \E d \in DayEntries : days_to_show' = d
    /\ days_to_show' # days_to_show
    /\ UNCHANGED <<pc, startup, now, cache, ratio_mode, current_data,
                   api_status, gold_prices, bitcoin_prices, cached_prices, fetched, log, given>>

\* a ratio radio button: the variable is set, then refresh_data runs
SelectMode ==
    /\ pc = "idle"
    /\ \E m \in Modes : ratio_mode' = m
    /\ pc' = "refresh"
    /\ UNCHANGED <<startup, now, cache, days_to_show, current_data,
                   api_status, gold_prices, bitcoin_prices, cached_prices, fetched, log, given>>

\* the Refresh Data button
RefreshButton ==
    /\ pc = "idle"
    /\ pc' = "refresh"
    /\ UNCHANGED <<startup, now, cache, days_to_show, ratio_mode, current_data,
                   api_status, gold_prices, bitcoin_prices, cached_prices, fetched, log, given>>

\* ----------------------------------------------------------- refresh_data
\* variant: only a negative day count is rejected
DaysValid_NonNegative(days) == days >= 0

\* lines 287-294: a day count that is not positive is rejected
DaysValid(days) == days > 0

\* variant: the rows of the last refresh are kept
ClearedData_Kept == current_data

\* line 301: self.current_data = []
ClearedData == << >>

\* variant: the rows are cleared before the day count is validated
RefreshData_ClearsFirst ==
    /\ pc = "refresh"
    /\ current_data' = ClearedData
    /\ IF DaysValid(days_to_show)
       THEN /\ log' = << >>
            /\ pc' = "gold_cache"
       ELSE /\ log' = <<ShowError("days")>>
            /\ pc' = "idle"
    /\ gold_prices' = None
    /\ bitcoin_prices' = None
    /\ cached_prices' = None
    /\ fetched' = None
    /\ UNCHANGED <<startup, now, cache, days_to_show, ratio_mode,
                   api_status, given>>

\* lines 287-304: validate, then clear the rows
RefreshData ==
    /\ pc = "refresh"
    /\ IF DaysValid(days_to_show)
       THEN /\ current_data' = ClearedData
            /\ log' = << >>
            /\ pc' = "gold_cache"
       ELSE /\ log' = <<ShowError("days")>>
            /\ pc' = "idle"
            /\ UNCHANGED current_data
    /\ gold_prices' = None
    /\ bitcoin_prices' = None
    /\ cached_prices' = None
    /\ fetched' = None
    /\ UNCHANGED <<startup, now, cache, days_to_show, ratio_mode,
                   api_status, given>>

\* line 158: if cached_prices
CacheHit(cached) == DictTruthy(cached)

\* lines 155-160: get_gold_prices_historical, the cache lookup
AttemptCache ==
    /\ pc = "gold_cache"
    /\ cached_prices' = load_cached_prices(cache, now)
    /\ IF CacheHit(cached_prices')
       THEN /\ api_status' = update_api_status(api_status, "NBP", TRUE)
            /\ gold_prices' = cached_prices'
            /\ log' = log \o <<CacheLoad(TRUE), Status("NBP", TRUE), Returned("gold", cached_prices'.some)>>
            /\ pc' = "crypto"
       ELSE /\ log' = Append(log, CacheLoad(FALSE))
            /\ pc' = "gold_primary"
            /\ UNCHANGED <<api_status, gold_prices>>
    /\ UNCHANGED <<startup, now, cache, days_to_show, ratio_mode, current_data,
                   bitcoin_prices, fetched, given>>

\* variant: a failed NBP call ends the chain
AfterPrimaryFailure_GivesUp == "crypto"

\* variant: the NBP call is made again after it failed
AfterPrimaryFailure_Retry == "gold_primary"

\* where get_gold_prices_historical goes after the NBP call failed (lines 185, 190)
AfterPrimaryFailure == "gold_fallback"

\* lines 168-177: what the NBP call and the parsing of its response produce
nbp_result(r) ==
    IF r.kind = "ok" THEN Some(NbpPrices(r.body, EmptyDict)) ELSE None

\* lines 162-190: get_gold_prices_historical, the NBP call
AttemptPrimary ==
    /\ pc = "gold_primary"
    /\ \E r \in NbpResponses, w \in WriteOutcomes :
          /\ fetched' = nbp_result(r)
          /\ IF fetched'.some
             THEN /\ cache' = cache_prices(cache, fetched'.val, now, w)
                  /\ api_status' = update_api_status(api_status, "NBP", TRUE)
                  /\ gold_prices' = fetched'
                  /\ log' = log \o <<Call("NBP"), CacheStore(w = "ok"), Status("NBP", TRUE),
                                      Returned("gold", fetched'.some)>>
                  /\ pc' = "crypto"
             ELSE /\ w = "ok"
                  /\ api_status' = update_api_status(api_status, "NBP", FALSE)
                  /\ log' = log \o <<Call("NBP"), Status("NBP", FALSE)>>
                  /\ pc' = AfterPrimaryFailure
                  /\ UNCHANGED <<cache, gold_prices>>
    /\ UNCHANGED <<startup, now, days_to_show, ratio_mode, current_data,
                   bitcoin_prices, cached_prices, given>>

\* lines 192-214: what get_gold_prices_yfinance returns for a provider response
yfinance_result(r) ==
    IF r.kind = "ok" THEN Some(GldPrices(r.body, EmptyDict)) ELSE None

\* variant: the fallback is called and its result dropped
ReturnFallback_Dropped(result) == None

\* lines 185 and 190: return self.get_gold_prices_yfinance()
ReturnFallback(result) == result

\* variant: the fallback's series is written to the cache file
AttemptFallback_Caching ==
    /\ pc = "gold_fallback"
    /\ \E r \in GldResponses :
          /\ fetched' = yfinance_result(r)
          /\ cache' = IF fetched'.some THEN CacheRecord(now, fetched'.val) ELSE cache
          /\ api_status' = update_api_status(api_status, "YFinance", fetched'.some)
          /\ gold_prices' = ReturnFallback(fetched')
          /\ log' = log \o <<Call("YFinance"), Status("YFinance", fetched'.some),
                              Returned("gold", gold_prices'.some)>>
    /\ pc' = "crypto"
    /\ UNCHANGED <<startup, now, days_to_show, ratio_mode, current_data,
                   bitcoin_prices, cached_prices, given>>

\* lines 192-214: get_gold_prices_yfinance, called from lines 185 and 190
AttemptFallback ==
    /\ pc = "gold_fallback"
    /\ \E r \in GldResponses :
          /\ fetched' = yfinance_result(r)
          /\ api_status' = update_api_status(api_status, "YFinance", fetched'.some)
          /\ gold_prices' = ReturnFallback(fetched')
          /\ log' = log \o <<Call("YFinance"), Status("YFinance", fetched'.some),
                              Returned("gold", gold_prices'.some)>>
    /\ pc' = "crypto"
    /\ UNCHANGED <<startup, now, cache, days_to_show, ratio_mode, current_data,
                   bitcoin_prices, cached_prices, given>>

\* lines 216-245: what get_bitcoin_prices_historical returns for a provider response
coingecko_result(r) ==
    IF r.kind = "ok" THEN Some(BtcPrices(r.body, EmptyDict)) ELSE None

\* line 308 is followed by line 310: whatever the crypto fetch returned
AfterCrypto(result) == "compute"

\* lines 216-245: get_bitcoin_prices_historical, the provider answering r
FetchCryptoWith(r) ==
    /\ pc = "crypto"
    /\ bitcoin_prices' = coingecko_result(r)
    /\ api_status' = update_api_status(api_status, "CoinGecko", r.kind = "ok")
    /\ log' = log \o <<Call("CoinGecko"), Status("CoinGecko", r.kind = "ok"),
                        Returned("crypto", coingecko_result(r).some)>>
    /\ pc' = AfterCrypto(coingecko_result(r))
    /\ UNCHANGED <<startup, now, cache, days_to_show, ratio_mode, current_data,
                   gold_prices, cached_prices, fetched, given>>

\* lines 216-245: get_bitcoin_prices_historical
FetchCrypto == \E r \in BtcResponses : FetchCryptoWith(r)

\* ------------------------------------------------------- ratio calculation
\* a float quotient, kept as the pair it was computed from
Quotient(a, b) == [num |-> a, den |-> b]

\* variant: the two orientations exchanged
calculate_ratio_Swapped(mode, gold_price, btc_price) ==
    IF mode = "btc_gold" THEN Quotient(gold_price, btc_price)
    ELSE Quotient(btc_price, gold_price)

\* lines 269-274
calculate_ratio(mode, gold_price, btc_price) ==
    IF mode = "btc_gold" THEN Quotient(btc_price, gold_price)
    ELSE Quotient(gold_price, btc_price)

\* variant: latest date first
Sorted_Descending(S) ==
    CHOOSE s \in [1..Cardinality(S) -> S] :
        \A i, j \in 1..Cardinality(S) : i < j => s[i] > s[j]

RECURSIVE Sorted(_)
\* sorted(...) of a set of dates
Sorted(S) ==
    IF S = {} THEN << >>
    ELSE LET m == CHOOSE x \in S : \A y \in S : x <= y
         IN  <<m>> \o Sorted(S \ {m})

\* variant: seq[:n], the first n
LastN_First(seq, n) ==
    IF n >= Len(seq) THEN seq ELSE SubSeq(seq, 1, n)

\* seq[-n:] for n > 0
LastN(seq, n) ==
    IF n >= Len(seq) THEN seq ELSE SubSeq(seq, Len(seq) - n + 1, Len(seq))

\* line 311
SelectDates(gold, btc, days) == LastN(Sorted((DOMAIN gold) \cap (DOMAIN btc)), days)

\* variant: only the gold price is tested
BothPrices_GoldOnly(gold_price, bitcoin_price) == FloatTruthy(gold_price)

\* line 317: if gold_price and bitcoin_price
BothPrices(gold_price, bitcoin_price) == FloatTruthy(gold_price) /\ JsonTruthy(bitcoin_price)

Row(date, gold_price, btc_price, ratio) ==
    [Date |-> date, Gold |-> gold_price, Bitcoin |-> btc_price, Ratio |-> ratio]

RECURSIVE BuildRows(_, _, _, _, _)
\* lines 313-326: the loop over the dates, appending to acc (self.current_data);
\* dividing by or into a string raises TypeError, which leaves the rows appended
\* so far
BuildRows(dates, gold, btc, mode, acc) ==
    IF dates = << >> THEN [rows |-> acc, raised |-> FALSE]
    ELSE LET date == Head(dates)
             gold_price == gold[date]
             bitcoin_price == btc[date]
         IN  IF BothPrices(gold_price, bitcoin_price)
             THEN IF bitcoin_price.kind # "num"
                  THEN [rows |-> acc, raised |-> TRUE]
                  ELSE BuildRows(Tail(dates), gold, btc, mode,
                           Append(acc, Row(date, gold_price, bitcoin_price.val,
                               calculate_ratio(mode, gold_price, bitcoin_price.val))))
             ELSE BuildRows(Tail(dates), gold, btc, mode, acc)

\* variant: only the gold series is tested
BothSeries_GoldOnly(gold, btc) == DictTruthy(gold)

\* line 310: if gold_prices and bitcoin_prices
BothSeries(gold, btc) == DictTruthy(gold) /\ DictTruthy(btc)

\* lines 310-342: the rows and the "Last refreshed" label, or the error message.
\* An exception leaves refresh_data: Tk reports it and the main loop goes on,
\* but during __init__ it ends the program. The locals end with the call.
Compute ==
    /\ pc = "compute"
    /\ IF BothSeries(gold_prices, bitcoin_prices)
       THEN LET dates == SelectDates(gold_prices.val, bitcoin_prices.val, days_to_show)
                built == BuildRows(dates, gold_prices.val, bitcoin_prices.val, ratio_mode, current_data)
            IN  /\ current_data' = built.rows
                /\ log' = Append(log, IF built.raised THEN Raised ELSE Refreshed)
                /\ pc' = IF built.raised /\ startup THEN "crashed" ELSE "idle"
       ELSE /\ log' = Append(log, ShowError("fetch"))
            /\ pc' = "idle"
            /\ UNCHANGED current_data
    /\ startup' = FALSE
    /\ gold_prices' = None
    /\ bitcoin_prices' = None
    /\ cached_prices' = None
    /\ fetched' = None
    /\ UNCHANGED <<now, cache, days_to_show, ratio_mode, api_status, given>>

Next ==
    \/ Tick
    \/ EditDays
    \/ SelectMode
    \/ RefreshButton
    \/ RefreshData
    \/ AttemptCache
    \/ AttemptPrimary
    \/ AttemptFallback
    \/ FetchCrypto
    \/ Compute

Spec == Init /\ [][Next]_vars

\* ------------------------------------------------ runs on prepared answers
\* The calculation is followed over more dates than Spec draws. The program
\* starts as in Init; the cache file holds a fresh record, so that the gold
\* series of every refresh is the record's; the crypto provider answers
\* given.crypto at every call; the user refreshes three times: __init__ does,
\* then the user sets a day count and a mode, then presses Refresh Data with
\* nothing changed. given.runs counts the refreshes started, given.before keeps
\* the rows that were on display when the last one started.
CalcMaxDate == 2
MaxSamples == 2

CalcDates == 1..CalcMaxDate
\* A date's quote is zero or a quote of its own, so that a row shows which
\* date's prices it carries.
OwnQuotes(d) == {0, d}
\* the series NbpPrices yields over some of the dates
GoldSeries ==
    UNION {{g \in [S -> {q * NbpFactor : q \in 0..CalcMaxDate}] :
                \A d \in S : g[d] \in {q * NbpFactor : q \in OwnQuotes(d)}} :
           S \in (SUBSET CalcDates) \ {{}}}
GivenCaches == {CacheRecord(0, g) : g \in GoldSeries}

Answer(body) == [kind |-> "ok", body |-> body]
\* one sample a day, at noon, listed in any order
NoonSamples ==
    UNION {{<<d * SecondsPerDay * MsPerSecond + HalfDayMs, p>> :
                p \in {Num(q) : q \in OwnQuotes(d)} \cup {Str}} : d \in CalcDates}
CalcAnswers == {Answer(b) : b \in SeqsUpTo(NoonSamples, MaxSamples)}
\* two samples a day, at midnight and at noon, listed in any order
DaySamples ==
    {d * SecondsPerDay * MsPerSecond + h * HalfDayMs : d \in CalcDates, h \in {0, 1}}
        \X JsonPrices
ParseAnswers == {Answer(b) : b \in SeqsUpTo(DaySamples, MaxSamples)}

CalcDays == {1, 2}

\* Init, with the cache file and the crypto provider's answer drawn from the
\* sets handed in
GivenInit(caches, answers) ==
    /\ pc = "refresh"
    /\ startup = TRUE
    /\ now = 0
    /\ cache \in caches
    /\ days_to_show = DefaultDays
    /\ ratio_mode = "btc_gold"
    /\ current_data = << >>
    /\ api_status = EmptyDict
    /\ gold_prices = None
    /\ bitcoin_prices = None
    /\ cached_prices = None
    /\ fetched = None
    /\ log = << >>
    /\ given \in [crypto : answers, runs : {1}, before : {<< >>}]

\* lines 216-245 with the provider answering as prepared
GivenCrypto == FetchCryptoWith(given.crypto)

\* after the first refresh the user types a day count and clicks a mode button,
\* whose command is refresh_data (lines 82-84, 99-109)
Reconfigure ==
    /\ pc = "idle"
    /\ given.runs = 1
    /\ \E d \in CalcDays, m \in Modes :
          /\ days_to_show' = d
          /\ ratio_mode' = m
    /\ pc' = "refresh"
    /\ given' = [given EXCEPT !.runs = 2]
    /\ UNCHANGED <<startup, now, cache, current_data, api_status, gold_prices,
                   bitcoin_prices, cached_prices, fetched, log>>

\* then the user presses Refresh Data (lines 115-117) with nothing changed
Again ==
    /\ pc = "idle"
    /\ given.runs = 2
    /\ pc' = "refresh"
    /\ given' = [given EXCEPT !.runs = 3, !.before = current_data]
    /\ UNCHANGED <<startup, now, cache, days_to_show, ratio_mode, current_data,
                   api_status, gold_prices, bitcoin_prices, cached_prices, fetched, log>>

CalcInit == GivenInit(GivenCaches, CalcAnswers)

CalcNext ==
    \/ RefreshData
    \/ AttemptCache
    \/ GivenCrypto
    \/ Compute
    \/ Reconfigure
    \/ Again

SpecCalc == CalcInit /\ [][CalcNext]_vars

\* the crypto adapter alone, on answers with several samples a day
ParseInit ==
    GivenInit({CacheRecord(0, NbpPrices(<<[data |-> 1, cena |-> 1]>>, EmptyDict))},
              ParseAnswers)

ParseNext ==
    \/ RefreshData
    \/ AttemptCache
    \/ GivenCrypto
    \/ Compute

SpecParse == ParseInit /\ [][ParseNext]_vars

\* ------------------------------------------------------- reading the log
Has(e) == \E i \in DOMAIN log : log[i] = e
Count(e) == Cardinality({i \in DOMAIN log : log[i] = e})
Before(e1, e2) == \E i, j \in DOMAIN log : i < j /\ log[i] = e1 /\ log[j] = e2

\* the gold chain of the running refresh has returned
GoldDone == pc \in {"crypto", "compute"}
\* the cache lookup has just happened: cache and clock are what it read
JustLoaded == pc = "gold_primary" \/ (pc = "crypto" /\ Has(CacheLoad(TRUE)))
\* the cache file holds a well-formed record younger than the TTL
FreshRecord == cache.kind = "record" /\ now - cache.timestamp < TTL
\* refresh_data has returned
CycleEnded == pc = "idle" /\ log # << >>

\* ---------------------------------------------------------------- claims

\* C1: when the cache misses, NBP fails and YFinance succeeds, the statuses
\* held are NBP = failed and YFinance = succeeded, YFinance is called only
\* after the NBP failure was recorded, and the gold chain returns exactly the
\* series the YFinance adapter produced.
C1_FallbackServesItsOutput ==
    (Has(CacheLoad(FALSE)) /\ Has(Status("NBP", FALSE)) /\ Has(Status("YFinance", TRUE)))
    => /\ "NBP" \in DOMAIN api_status /\ api_status["NBP"] = FALSE
       /\ "YFinance" \in DOMAIN api_status /\ api_status["YFinance"] = TRUE
       /\ Before(Status("NBP", FALSE), Call("YFinance"))
       /\ ~ Before(Call("YFinance"), Status("NBP", FALSE))
       /\ Has(Returned("gold", TRUE))
       /\ GoldDone => (fetched.some /\ gold_prices = fetched)

C1_Witness ==
    /\ pc = "compute"
    /\ Has(CacheLoad(FALSE)) /\ Has(Status("NBP", FALSE)) /\ Has(Status("YFinance", TRUE))
    /\ gold_prices.some /\ DOMAIN gold_prices.val # {}

\* C2: a well-formed record younger than the TTL, whatever series it holds, is
\* a hit: NBP success status, the cached series returned, no adapter called.
C2_FreshRecordIsAHit ==
    JustLoaded =>
       (FreshRecord =>
           /\ pc = "crypto"
           /\ Has(Status("NBP", TRUE))
           /\ gold_prices = Some(cache.prices)
           /\ ~ Has(Call("NBP")) /\ ~ Has(Call("YFinance")))

\* C3: load_cached_prices returns the record's series exactly when the record
\* exists, is well-formed and is younger than one hour, and None otherwise.
C3_LoadWithinTtl ==
    JustLoaded =>
       /\ (cache.kind = "record" /\ now - cache.timestamp <= TTL - 1)
             => cached_prices = Some(cache.prices)
       /\ (cache.kind # "record" \/ now - cache.timestamp >= TTL)
             => cached_prices = None

C3_Witness ==
    /\ JustLoaded
    /\ cache.kind = "record" /\ cache.prices # EmptyDict
    /\ now - cache.timestamp = TTL
    /\ cached_prices = None

\* C4: a successful NBP fetch leaves {capturedAt: now, series: fetched} in the
\* cache; a refresh that looks the cache up less than one hour after a record
\* was captured returns that record's series without calling NBP, and one that
\* looks it up later calls NBP again.
C4_StoredThenServed ==
    /\ (pc = "crypto" /\ Has(CacheStore(TRUE)))
          => (fetched.some /\ cache = CacheRecord(now, fetched.val))
    /\ JustLoaded =>
          /\ FreshRecord => (pc = "crypto" /\ gold_prices = Some(cache.prices))
          /\ (cache.kind = "record" /\ ~ FreshRecord) => pc = "gold_primary"
    /\ (GoldDone /\ Has(CacheLoad(FALSE))) => Has(Call("NBP"))

C6_NoErrorAbortsRefresh ==
    /\ \A src \in Sources :
          (Has(Call(src)) /\ (CycleEnded \/ pc = "compute"))
             => (Has(Status(src, TRUE)) \/ Has(Status(src, FALSE)))
    /\ ~ Has(Raised)
    /\ pc # "crashed"
    /\ CycleEnded => (Has(Refreshed) \/ Has(ShowError("fetch")) \/ Has(ShowError("days")))

C8_NoRetry ==
    /\ \A src \in Sources : Count(Call(src)) <= 1
    /\ Has(Call("YFinance"))
          => /\ Before(Call("NBP"), Status("NBP", FALSE))
             /\ Before(Status("NBP", FALSE), Call("YFinance"))
    /\ \A src \in Sources : ~ Before(Status("CoinGecko", FALSE), Call(src))

C8_Witness ==
    /\ CycleEnded
    /\ Has(Call("NBP")) /\ Has(Call("YFinance"))
    /\ Has(Status("CoinGecko", FALSE))

\* C9: a refresh whose gold result or crypto result is None reports the
\* aggregate failure and leaves current_data empty.
C9_AbsentLegMeansNoRows ==
    (CycleEnded /\ (Has(Returned("gold", FALSE)) \/ Has(Returned("crypto", FALSE))))
    => (Has(ShowError("fetch")) /\ ~ Has(Refreshed) /\ current_data = << >>)

C9_Witness ==
    /\ CycleEnded
    /\ Has(Returned("gold", TRUE))
    /\ Has(Returned("crypto", FALSE))
    /\ Has(ShowError("fetch"))

\* C10: a refresh in which both the gold chain and the crypto fetch returned a
\* series (possibly with no entries) does not report the aggregate failure.
C10_FailureOnlyWhenAbsent ==
    (CycleEnded /\ Has(Returned("gold", TRUE)) /\ Has(Returned("crypto", TRUE)))
    => ~ Has(ShowError("fetch"))

\* C11: a refresh started with a zero or negative day count is rejected before
\* anything is fetched: it shows the error and returns, having called neither
\* gold adapter nor the crypto adapter and having neither read nor written the
\* cache; the steps of a refresh past the validation run on a positive count.
C11_RejectedBeforeAnyFetch ==
    /\ Has(ShowError("days")) => (log = <<ShowError("days")>> /\ pc \in {"idle", "refresh"})
    /\ pc \in {"gold_cache", "gold_primary", "gold_fallback", "crypto", "compute"}
          => days_to_show > 0

C11_Witness ==
    /\ pc = "idle"
    /\ days_to_show <= 0
    /\ log = <<ShowError("days")>>
    /\ api_status # EmptyDict

\* ------------------------------------- reading a run on prepared answers
GivenGold == cache.prices
GivenSamples == given.crypto.body
GivenBtc == coingecko_result(given.crypto).val
SampleDate(i) == DateOfTimestamp(GivenSamples[i][1])
GivenBtcDates == {SampleDate(i) : i \in DOMAIN GivenSamples}
CommonDates == (DOMAIN GivenGold) \cap GivenBtcDates
\* the min(limit, n) latest of the n common dates
LatestDates == {d \in CommonDates : Cardinality({e \in CommonDates : e > d}) < days_to_show}
RowDates == {current_data[i].Date : i \in DOMAIN current_data}
PositivePrices ==
    /\ \A d \in DOMAIN GivenGold : GivenGold[d] > 0
    /\ \A i \in DOMAIN GivenSamples :
          GivenSamples[i][2].kind = "num" /\ GivenSamples[i][2].val > 0
\* refresh_data has returned or raised
RefreshEnded == pc \in {"idle", "crashed"}

\* C12: whatever order the provider listed its samples in, the rows' dates are
\* common to the gold and the crypto series and strictly ascending; when the
\* prices are positive and the limit is at least the number of common dates,
\* the rows' dates are exactly the common dates.
C12_CommonDatesAscending ==
    RefreshEnded =>
       /\ RowDates \subseteq CommonDates
       /\ \A i, j \in DOMAIN current_data :
             i < j => current_data[i].Date < current_data[j].Date
       /\ (PositivePrices /\ days_to_show >= Cardinality(CommonDates))
             => (RowDates = CommonDates /\ Len(current_data) = Cardinality(CommonDates))

C12_Witness ==
    /\ pc = "idle"
    /\ PositivePrices
    /\ Len(GivenSamples) = 2
    /\ SampleDate(1) > SampleDate(2)
    /\ Len(current_data) = 2
    /\ current_data[1].Date < current_data[2].Date
    /\ days_to_show = DefaultDays

\* C13, as the specification states it: for any positive limit and any n common
\* dates, the rows are exactly the min(limit, n) latest common dates, and are
\* no more than the limit.
C13_ExactlyTheLatest ==
    RefreshEnded => (RowDates = LatestDates /\ Len(current_data) <= days_to_show)

\* C13, amended: the rows' dates are among the min(limit, n) latest common
\* dates, so the rows are no more than the limit; they are exactly those dates
\* when all prices are positive numbers.
C13_AmongTheLatest ==
    RefreshEnded =>
       /\ RowDates \subseteq LatestDates
       /\ Len(current_data) <= days_to_show
       /\ PositivePrices
             => (RowDates = LatestDates /\ Len(current_data) = Cardinality(LatestDates))

C13_Witness ==
    /\ pc = "idle"
    /\ PositivePrices
    /\ days_to_show = 1
    /\ Cardinality(CommonDates) = 2
    /\ Len(current_data) = 1
    /\ \A d \in CommonDates : d <= current_data[1].Date

\* C14: every row carries the gold and the crypto price of its own date and
\* their ratio, crypto over gold in mode btc_gold and gold over crypto
\* otherwise: one orientation for all the rows of a refresh.
C14_RatioOfOwnPrices ==
    RefreshEnded =>
       \A i \in DOMAIN current_data :
          LET row == current_data[i]
          IN  /\ row.Date \in CommonDates
              /\ row.Gold = GivenGold[row.Date]
              /\ Num(row.Bitcoin) = GivenBtc[row.Date]
              /\ row.Ratio = IF ratio_mode = "btc_gold"
                             THEN Quotient(row.Bitcoin, row.Gold)
                             ELSE Quotient(row.Gold, row.Bitcoin)

C14_Witness ==
    /\ pc = "idle"
    /\ ratio_mode = "gold_btc"
    /\ Len(current_data) = 2
    /\ current_data[1].Ratio # current_data[2].Ratio
    /\ current_data[2].Ratio = Quotient(GivenGold[2], GivenBtc[2].val)

\* the first sample of date d in the order of the response
FirstOf(d) ==
    CHOOSE i \in DOMAIN GivenSamples :
        SampleDate(i) = d /\ \A j \in DOMAIN GivenSamples : SampleDate(j) = d => i <= j

C16_StatusesOfThisRefresh ==
    (CycleEnded /\ ~ Has(ShowError("days")))
    => \A src \in DOMAIN api_status : Has(Status(src, api_status[src]))

\* C17: a refresh repeated on the same gold series, crypto series, mode and
\* limit leaves in current_data the same rows as the refresh before it: the rows
\* are computed anew, not appended to the earlier ones.
C17_SameInputsSameRows ==
    (pc = "idle" /\ given.runs = 3) => current_data = given.before

C17_Witness ==
    /\ pc = "idle"
    /\ given.runs = 3
    /\ Has(Refreshed)
    /\ Len(current_data) = 2
    /\ Len(given.before) = 2

\* C18: the cache file changes only in the step in which the NBP call
\* succeeds, and a record written then holds the NBP series; the cache lookup,
\* a failed NBP call, the YFinance call whatever it returns, the crypto fetch
\* and a rejected refresh leave the file as it was. A cached record therefore
\* never holds YFinance prices.
C18_OnlyPrimarySuccessStores ==
    /\ [](cache.kind = "record"
             => \A d \in DOMAIN cache.prices : cache.prices[d] % NbpFactor = 0)
    /\ [][ /\ cache' # cache
              => /\ pc = "gold_primary"
                 /\ fetched'.some
                 /\ \E i \in DOMAIN log' : log'[i] = Status("NBP", TRUE)
                 /\ cache'.kind = "record" => cache' = CacheRecord(now, fetched'.val)
           /\ pc \in {"idle", "refresh", "gold_cache", "gold_fallback", "crypto", "compute"}
              => cache' = cache
           /\ (pc = "gold_primary" /\ pc' = "gold_fallback") => cache' = cache ]_vars

C18_Witness ==
    /\ pc = "compute"
    /\ Has(Status("NBP", FALSE))
    /\ Has(Status("YFinance", TRUE))
    /\ DictTruthy(gold_prices)
    /\ cache.kind = "record"
    /\ cache.prices # gold_prices.val

\* C19: no ratio is computed with a zero denominator: every row has a
\* non-zero gold and a non-zero crypto price, and a selected date whose gold or
\* crypto price is zero has no row.
C19_NoZeroDenominator ==
    RefreshEnded =>
       /\ \A i \in DOMAIN current_data :
             /\ current_data[i].Gold # 0
             /\ current_data[i].Bitcoin # 0
             /\ current_data[i].Ratio.den # 0
       /\ \A d \in CommonDates :
             (GivenGold[d] = 0 \/ GivenBtc[d] = Num(0)) => d \notin RowDates

C19_Witness ==
    /\ pc = "idle"
    /\ Has(Refreshed)
    /\ CommonDates = {1, 2}
    /\ GivenGold[1] # 0
    /\ GivenBtc[1] = Num(0)
    /\ RowDates = {2}

\* C20: current_data holds only rows of the last refresh that passed
\* validation: the rows are empty while such a refresh fetches, its last step
\* leaves the rows computed from its own series, or none when it reports the
\* failure to fetch; a refresh rejected for its day count, like anything the
\* user does between refreshes, leaves current_data as it was.
C20_RowsOfLastValidRefresh ==
    /\ [](pc \in {"gold_cache", "gold_primary", "gold_fallback", "crypto", "compute"}
             => current_data = << >>)
    /\ [][ /\ (pc = "refresh" /\ days_to_show <= 0) => current_data' = current_data
           /\ pc = "idle" => current_data' = current_data
           /\ pc = "compute"
              => current_data' =
                    IF DictTruthy(gold_prices) /\ DictTruthy(bitcoin_prices)
                    THEN BuildRows(SelectDates(gold_prices.val, bitcoin_prices.val, days_to_show),
                                   gold_prices.val, bitcoin_prices.val, ratio_mode, << >>).rows
                    ELSE << >> ]_vars

C20_Witness ==
    /\ pc = "idle"
    /\ log = <<ShowError("days")>>
    /\ days_to_show <= 0
    /\ current_data # << >>

====
